---- MODULE Spec2Model ----
(***************************************************************************)
(* RC5 block cipher (gagiuntoli/RC5): the Word trait of word.rs and the    *)
(* rotl / rotr / expand_key / encrypt / decrypt functions of rc5.rs.       *)
(*                                                                         *)
(* A Word of width W (u8, u16, u32, ...) is the sequence of its limbs,     *)
(* least significant first: one limb of 8 bits for a u8, W/16 limbs of 16  *)
(* bits otherwise, so that no intermediate value leaves the integers the   *)
(* model checker computes with.  A Vec or an array of n elements is a      *)
(* function on 0..n-1, so that every index of the model is the index the   *)
(* source computes.  usize values (lengths, indices, round counts) are     *)
(* integers of UsizeBits bits; the sums, products and differences that can *)
(* leave that range are computed by usize_add, usize_mul and usize_sub.    *)
(*                                                                         *)
(* The legacy implementation of lib.rs (expand_key::<W,T>, encode, decode  *)
(* over the Unsigned trait of unsigned.rs) is modelled next to it.         *)
(***************************************************************************)
EXTENDS Integers, Sequences, FiniteSets, TLC

VARIABLES
    w,                \* W::BYTES * 8, the width of the Word type of the calls
    overflow_checks,  \* the build: TRUE traps on integer overflow (debug)
    key,              \* key: &Vec<u8>
    rounds,           \* rounds: usize
    input,            \* the block handed to the first call
    order,            \* the two calls made: encrypt then decrypt, or the converse
    pc,               \* the position of the running call
    phase,            \* 1: the first call is running, 2: the second
    fn,               \* the function running: "encrypt" or "decrypt"
    arg,              \* pt / ct: the block the running call was given
    c,                \* expand_key: number of key words
    t,                \* expand_key: table length
    key_l,            \* expand_key: Vec<W> of the key words
    key_s,            \* expand_key: Vec<W> of the subkeys
    i,                \* expand_key: loop variable i (packing, init, mixing)
    j,                \* expand_key: mixing index j
    k,                \* expand_key: mixing loop counter _k
    mix_a,            \* expand_key: mixing accumulator a
    mix_b,            \* expand_key: mixing accumulator b
    key_exp,          \* encrypt / decrypt: the table expand_key returned
    a,                \* encrypt / decrypt: a
    b,                \* encrypt / decrypt: b
    round_i,          \* encrypt / decrypt: loop variable i
    out1,             \* the block the first call returned
    out2,             \* the block the second call returned
    shifts,           \* the amounts the last step handed to << and >> in rotl / rotr
    panicked,         \* a call panicked (overflow trap or index out of range)
    rot_x,            \* rotation harness: x
    rot_y,            \* rotation harness: the amount y
    rot_l,            \* rotation harness: rotl(x, y)
    rot_r,            \* rotation harness: rotr(x, y)
    rot_lr,           \* rotation harness: rotr(rotl(x, y), y)
    rot_rl,           \* rotation harness: rotl(rotr(x, y), y)
    s_updates,        \* expand_key: how often the mixing loop wrote each key_s[i]
    l_updates,        \* expand_key: how often the mixing loop wrote each key_l[j]
    enc_trace,        \* encrypt: [a, b] after the key addition and after each round
    lib_key_s,        \* lib.rs: the table expand_key::<W,T> returned
    lib_out           \* lib.rs: the bytes encode / decode returned

vars == <<w, overflow_checks, key, rounds, input, order, pc, phase, fn, arg,
          c, t, key_l, key_s, i, j, k, mix_a, mix_b, key_exp, a, b, round_i,
          out1, out2, shifts, panicked, rot_x, rot_y, rot_l, rot_r, rot_lr,
          rot_rl, s_updates, l_updates, enc_trace, lib_key_s, lib_out>>

(***************************************************************************)
(* Bounds of the exploration.                                              *)
(***************************************************************************)
MaxRounds == 2
MaxKeyLen == 3

(***************************************************************************)
(* Vec helpers.                                                            *)
(***************************************************************************)
VecLen(v) == Cardinality(DOMAIN v)

VecOf(n, val) == [x \in 0..(n - 1) |-> val]

\* the bytes <<b0, b1, ...>> as a Vec<u8> (index 0 first)
VecFrom(s) == [x \in 0..(Len(s) - 1) |-> s[x + 1]]

Max(x, y) == IF x >= y THEN x ELSE y

(***************************************************************************)
(* usize.  UsizeBits is the pointer width of the target; the smallest the  *)
(* language is built for is taken, so that usize::MAX is a value the model *)
(* checker can hold.  An operation yields the wrapped value and whether    *)
(* the exact result left the type: a build with overflow checks panics     *)
(* there, a build without them goes on with the wrapped value.             *)
(***************************************************************************)
UsizeBits == 16

usize_MAX == 2 ^ UsizeBits - 1

usize_add(x, y) ==
    [val |-> (x + y) % (usize_MAX + 1), overflow |-> x + y > usize_MAX]

usize_mul(x, y) ==
    [val |-> (x * y) % (usize_MAX + 1), overflow |-> x * y > usize_MAX]

usize_sub(x, y) ==
    [val |-> (x - y) % (usize_MAX + 1), overflow |-> x < y]

(***************************************************************************)
(* word.rs: the Word trait over u8, u16, u32, u64, u128.  The type         *)
(* parameter W of the source is the width in bits here.                    *)
(***************************************************************************)
LimbBits(W) == IF W < 16 THEN W ELSE 16

Limbs(W) == W \div LimbBits(W)

Base(W) == 2 ^ LimbBits(W)

\* limb n of x, 0 beyond its ends
Limb(x, n) == IF n \in 1..Len(x) THEN x[n] ELSE 0

RECURSIVE LimbSeq(_, _, _)
\* the n low limbs of the integer val, least significant first
LimbSeq(val, n, base) ==
    IF n = 0 THEN <<>> ELSE <<val % base>> \o LimbSeq(val \div base, n - 1, base)

\* `val as Self`: the integer val truncated to W bits
AsWord(W, val) == LimbSeq(val, Limbs(W), Base(W))

from_usize(W, val) == AsWord(W, val)

from_u8(W, val) == AsWord(W, val)

ZERO(W) == [n \in 1..Limbs(W) |-> 0]

RECURSIVE Reversed(_)
Reversed(s) == IF s = <<>> THEN <<>> ELSE Reversed(Tail(s)) \o <<Head(s)>>

\* an integer literal of the source, written in groups of 16 bits (8 for a u8),
\* most significant group first
Literal(groups) == Reversed(groups)

\* P with the value of Q of the same width
P_as_Q(W) ==
    CASE W = 8   -> Literal(<<\h9F>>)
      [] W = 16  -> Literal(<<\h9E37>>)
      [] W = 32  -> Literal(<<\h9E37, \h79B9>>)
      [] W = 64  -> Literal(<<\h9E37, \h79B9, \h7F4A, \h7C15>>)
      [] W = 128 -> Literal(<<\h9E37, \h79B9, \h7F4A, \h7C15,
                              \hF39C, \hC060, \h5CED, \hC835>>)

P(W) ==
    CASE W = 8   -> Literal(<<\hB7>>)
      [] W = 16  -> Literal(<<\hB7E1>>)
      [] W = 32  -> Literal(<<\hB7E1, \h5163>>)
      [] W = 64  -> Literal(<<\hB7E1, \h5162, \h8AED, \h2A6B>>)
      [] W = 128 -> Literal(<<\hB7E1, \h5162, \h8AED, \h2A6A,
                              \hBF71, \h5880, \h9CF4, \hF3C7>>)

Q(W) ==
    CASE W = 8   -> Literal(<<\h9F>>)
      [] W = 16  -> Literal(<<\h9E37>>)
      [] W = 32  -> Literal(<<\h9E37, \h79B9>>)
      [] W = 64  -> Literal(<<\h9E37, \h79B9, \h7F4A, \h7C15>>)
      [] W = 128 -> Literal(<<\h9E37, \h79B9, \h7F4A, \h7C15,
                              \hF39C, \hC060, \h5CED, \hC835>>)

RECURSIVE AddLimbs(_, _, _, _, _)
\* ripple-carry sum of x and y from limb n up, the carry out of the top limb dropped
AddLimbs(W, x, y, n, carry) ==
    IF n > Limbs(W) THEN <<>>
    ELSE LET s == x[n] + y[n] + carry
         IN  <<s % Base(W)>> \o AddLimbs(W, x, y, n + 1, s \div Base(W))

\* x + y modulo 2^W
wrapping_add(W, x, y) == AddLimbs(W, x, y, 1, 0)

RECURSIVE SubLimbs(_, _, _, _, _)
\* ripple-borrow difference of x and y from limb n up, the last borrow dropped
SubLimbs(W, x, y, n, borrow) ==
    IF n > Limbs(W) THEN <<>>
    ELSE LET d == x[n] - y[n] - borrow
         IN  <<d % Base(W)>> \o SubLimbs(W, x, y, n + 1, IF d < 0 THEN 1 ELSE 0)

\* x - y modulo 2^W
wrapping_sub(W, x, y) == SubLimbs(W, x, y, 1, 0)

RECURSIVE LessFrom(_, _, _)
\* x < y on limbs 1..n, compared from limb n down
LessFrom(x, y, n) ==
    IF n < 1 THEN FALSE
    ELSE IF x[n] # y[n] THEN x[n] < y[n]
    ELSE LessFrom(x, y, n - 1)

\* x < y as unsigned integers
Less(x, y) == LessFrom(x, y, Len(x))

RECURSIVE AndInt(_, _)
AndInt(x, y) ==
    IF x = 0 \/ y = 0 THEN 0
    ELSE (IF x % 2 = 1 /\ y % 2 = 1 THEN 1 ELSE 0) + 2 * AndInt(x \div 2, y \div 2)

RECURSIVE OrInt(_, _)
OrInt(x, y) ==
    IF x = 0 THEN y
    ELSE IF y = 0 THEN x
    ELSE (IF x % 2 = 1 \/ y % 2 = 1 THEN 1 ELSE 0) + 2 * OrInt(x \div 2, y \div 2)

RECURSIVE XorInt(_, _)
XorInt(x, y) ==
    IF x = 0 THEN y
    ELSE IF y = 0 THEN x
    ELSE (IF x % 2 # y % 2 THEN 1 ELSE 0) + 2 * XorInt(x \div 2, y \div 2)

\* x & y
BitAnd(x, y) == [n \in 1..Len(x) |-> AndInt(x[n], y[n])]

\* x | y
BitOr(x, y) == [n \in 1..Len(x) |-> OrInt(x[n], y[n])]

\* x ^ y
BitXor(x, y) == [n \in 1..Len(x) |-> XorInt(x[n], y[n])]

\* x shifted left by n bits, 0 <= n < W
ShlBy(W, x, n) ==
    LET q == n \div LimbBits(W)
        s == n % LimbBits(W)
    IN  [m \in 1..Limbs(W) |->
            ((Limb(x, m - q) * 2 ^ s) % Base(W))
            + (IF s = 0 THEN 0 ELSE Limb(x, m - q - 1) \div 2 ^ (LimbBits(W) - s))]

\* x shifted right by n bits, 0 <= n < W
ShrBy(W, x, n) ==
    LET q == n \div LimbBits(W)
        s == n % LimbBits(W)
    IN  [m \in 1..Limbs(W) |->
            (Limb(x, m + q) \div 2 ^ s)
            + (IF s = 0 THEN 0
               ELSE (Limb(x, m + q + 1) * 2 ^ (LimbBits(W) - s)) % Base(W))]

\* the shift a primitive shift performs once the amount is masked to the width
\* (the wrapped result of `x << amount`, as a build without overflow checks has it)
ShiftAmount(W, amount) == amount[1] % W

\* `x << amount` / `x >> amount` overflow when amount >= the width
ShiftOverflows(W, amount) == ~Less(amount, from_usize(W, W))

\* x << amount
Shl(W, x, amount) == ShlBy(W, x, ShiftAmount(W, amount))

\* x >> amount
Shr(W, x, amount) == ShrBy(W, x, ShiftAmount(W, amount))

\* x.wrapping_shl(n) for n: u32: the amount is n modulo the width
wrapping_shl(W, x, n) == ShlBy(W, x, n % W)

\* `x - y` on primitives overflows when x < y
SubOverflows(x, y) == Less(x, y)

(***************************************************************************)
(* rc5.rs: rotl, rotr.  Each is evaluated to a record: the value returned  *)
(* (with the wrapped result of an overflowing operation, as a build        *)
(* without overflow checks computes it), whether one of its primitive      *)
(* operations overflowed, and the amounts it shifted by.                   *)
(***************************************************************************)
\* the integer a shift amount stands for, W standing for "W or more"
AmountOf(W, amount) == IF ShiftOverflows(W, amount) THEN W ELSE amount[1]

\* rotl with the amount masked by w instead of w - 1
rotl_eval_mask_w(W, x, y) ==
    LET amt == BitAnd(y, from_usize(W, W))
    IN  IF amt = ZERO(W)
        THEN [val |-> x, overflow |-> FALSE, shifts |-> {}]
        ELSE LET back == wrapping_sub(W, from_usize(W, W), amt)
             IN  [val      |-> BitOr(Shl(W, x, amt), Shr(W, x, back)),
                  overflow |-> \/ ShiftOverflows(W, amt)
                               \/ SubOverflows(from_usize(W, W), amt)
                               \/ ShiftOverflows(W, back),
                  shifts   |-> {AmountOf(W, amt), AmountOf(W, back)}]

\* rotl without the early return for an amount of zero
rotl_eval_no_zero_check(W, x, y) ==
    LET amt  == BitAnd(y, from_usize(W, W - 1))
        back == wrapping_sub(W, from_usize(W, W), amt)
    IN  [val      |-> BitOr(Shl(W, x, amt), Shr(W, x, back)),
         overflow |-> \/ ShiftOverflows(W, amt)
                      \/ SubOverflows(from_usize(W, W), amt)
                      \/ ShiftOverflows(W, back),
         shifts   |-> {AmountOf(W, amt), AmountOf(W, back)}]

rotl_eval(W, x, y) ==
    LET amt == BitAnd(y, from_usize(W, W - 1))
    IN  IF amt = ZERO(W)
        THEN [val |-> x, overflow |-> FALSE, shifts |-> {}]
        ELSE LET back == wrapping_sub(W, from_usize(W, W), amt)
             IN  [val      |-> BitOr(Shl(W, x, amt), Shr(W, x, back)),
                  overflow |-> \/ ShiftOverflows(W, amt)
                               \/ SubOverflows(from_usize(W, W), amt)
                               \/ ShiftOverflows(W, back),
                  shifts   |-> {AmountOf(W, amt), AmountOf(W, back)}]

\* rotr shifting back by (w - 1) - a instead of w - a
rotr_eval_back_short(W, x, y) ==
    LET amt == BitAnd(y, from_usize(W, W - 1))
    IN  IF amt = ZERO(W)
        THEN [val |-> x, overflow |-> FALSE, shifts |-> {}]
        ELSE LET back == wrapping_sub(W, from_usize(W, W - 1), amt)
             IN  [val      |-> BitOr(Shr(W, x, amt), Shl(W, x, back)),
                  overflow |-> \/ ShiftOverflows(W, amt)
                               \/ SubOverflows(from_usize(W, W - 1), amt)
                               \/ ShiftOverflows(W, back),
                  shifts   |-> {AmountOf(W, amt), AmountOf(W, back)}]

rotr_eval(W, x, y) ==
    LET amt == BitAnd(y, from_usize(W, W - 1))
    IN  IF amt = ZERO(W)
        THEN [val |-> x, overflow |-> FALSE, shifts |-> {}]
        ELSE LET back == wrapping_sub(W, from_usize(W, W), amt)
             IN  [val      |-> BitOr(Shr(W, x, amt), Shl(W, x, back)),
                  overflow |-> \/ ShiftOverflows(W, amt)
                               \/ SubOverflows(from_usize(W, W), amt)
                               \/ ShiftOverflows(W, back),
                  shifts   |-> {AmountOf(W, amt), AmountOf(W, back)}]

rotl(W, x, y) == rotl_eval(W, x, y).val

rotr(W, x, y) == rotr_eval(W, x, y).val

(***************************************************************************)
(* unsigned.rs and the macros of lib.rs.  The Unsigned trait gives the     *)
(* legacy implementation the primitive operators: `+`, `-`, `<<` and `>>`  *)
(* overflow where the wrapping methods of Word do not.  As above, each is  *)
(* evaluated to the wrapped value and to whether it overflowed.            *)
(***************************************************************************)
\* W::BITS, W::ONE, W::THREE, W::EIGHT
BITS(W) == from_usize(W, W)

ONE(W) == from_usize(W, 1)

THREE(W) == from_usize(W, 3)

EIGHT(W) == from_usize(W, 8)

\* W::BYTES
BYTES(W) == W \div 8

\* `x + y` on primitives overflows when the sum leaves the type
AddOverflows(W, x, y) == Less(wrapping_add(W, x, y), x)

\* x + y
Add(W, x, y) == [val |-> wrapping_add(W, x, y), overflow |-> AddOverflows(W, x, y)]

\* x - y
Sub(W, x, y) == [val |-> wrapping_sub(W, x, y), overflow |-> SubOverflows(x, y)]

\* v[from..to]: the range must lie in the Vec
SliceInRange(v, from, to) == from <= to /\ to <= VecLen(v)

Slice(v, from, to) == [n \in 0..(to - from - 1) |-> v[from + n]]

\* [x, y].concat()
Concat(x, y) ==
    [n \in 0..(VecLen(x) + VecLen(y) - 1) |->
        IF n < VecLen(x) THEN x[n] ELSE y[n - VecLen(x)]]

RECURSIVE BytesValue(_, _, _)
\* bytes[from] + 256 * bytes[from + 1] + ... over count bytes
BytesValue(bytes, from, count) ==
    IF count = 0 THEN 0
    ELSE bytes[from] + 256 * BytesValue(bytes, from + 1, count - 1)

\* W::from_le_bytes(bytes) for bytes: [u8; BYTES]
from_le_bytes(W, bytes) ==
    LET perLimb == LimbBits(W) \div 8
    IN  [m \in 1..Limbs(W) |-> BytesValue(bytes, (m - 1) * perLimb, perLimb)]

\* W::to_le_bytes(x)
to_le_bytes(W, x) ==
    LET perLimb == LimbBits(W) \div 8
    IN  [n \in 0..(BYTES(W) - 1) |->
            (x[(n \div perLimb) + 1] \div (256 ^ (n % perLimb))) % 256]

\* rotl!(x, y)
rotl_macro(W, x, y) ==
    LET amt  == BitAnd(y, wrapping_sub(W, BITS(W), ONE(W)))
        back == wrapping_sub(W, BITS(W), amt)
    IN  [val      |-> BitOr(Shl(W, x, amt), Shr(W, x, back)),
         overflow |-> \/ SubOverflows(BITS(W), ONE(W))
                      \/ ShiftOverflows(W, amt)
                      \/ SubOverflows(BITS(W), amt)
                      \/ ShiftOverflows(W, back),
         shifts   |-> {AmountOf(W, amt), AmountOf(W, back)}]

\* rotr!(x, y)
rotr_macro(W, x, y) ==
    LET amt  == BitAnd(y, wrapping_sub(W, BITS(W), ONE(W)))
        back == wrapping_sub(W, BITS(W), amt)
    IN  [val      |-> BitOr(Shr(W, x, amt), Shl(W, x, back)),
         overflow |-> \/ SubOverflows(BITS(W), ONE(W))
                      \/ ShiftOverflows(W, amt)
                      \/ SubOverflows(BITS(W), amt)
                      \/ ShiftOverflows(W, back),
         shifts   |-> {AmountOf(W, amt), AmountOf(W, back)}]

(***************************************************************************)
(* The inputs explored.                                                    *)
(***************************************************************************)
Widths == {8, 16, 32}

\* the keys of the unit tests test_rivest_2 and encrypt_decrypt_8_12_4
KeyPatterns == {<<\h91, \h5F, \h46, \h19, \hBE, \h41, \hB2, \h51>>,
                <<\h00, \h01, \h02, \h03, \h04, \h05, \h06, \h07>>}

\* every prefix of a key pattern of at most MaxKeyLen bytes, the empty key included
Keys == {VecFrom(SubSeq(kp, 1, n)) : kp \in KeyPatterns, n \in 0..MaxKeyLen}

\* 0x77 (the word of test_left_right_shift) and the all-ones word
SampleWords(W) ==
    {from_usize(W, 119), [n \in 1..Limbs(W) |-> Base(W) - 1]}

Blocks(W) == [0..1 -> SampleWords(W)]

Block(x, y) == VecFrom(<<x, y>>)

\* the vectors of the unit tests encrypt_decrypt_8_12_4, encrypt_16_16_8 and
\* encrypt_decrypt_a of rc5.rs: width, rounds, key, plaintext, ciphertext
Vector_8_12_4 ==
    [w |-> 8, rounds |-> 12, key |-> VecFrom(<<0, 1, 2, 3>>),
     pt |-> Block(Literal(<<\h00>>), Literal(<<\h01>>)),
     ct |-> Block(Literal(<<\h21>>), Literal(<<\h2A>>))]

Vector_16_16_8 ==
    [w |-> 16, rounds |-> 16, key |-> VecFrom(<<0, 1, 2, 3, 4, 5, 6, 7>>),
     pt |-> Block(Literal(<<\h0100>>), Literal(<<\h0302>>)),
     ct |-> Block(Literal(<<\hA823>>), Literal(<<\h2ED7>>))]

Vector_32_12_16 ==
    [w |-> 32, rounds |-> 12,
     key |-> VecFrom(<<0, 1, 2, 3, 4, 5, 6, 7, 8, 9, 10, 11, 12, 13, 14, 15>>),
     pt |-> Block(Literal(<<\h3322, \h1100>>), Literal(<<\h7766, \h5544>>)),
     ct |-> Block(Literal(<<\h9B14, \hDC2D>>), Literal(<<\h9E8B, \h08CF>>))]

Vectors == {Vector_8_12_4, Vector_16_16_8, Vector_32_12_16}

\* each vector's plaintext and ciphertext as the block of a call
KnownAnswers ==
    UNION { { [w |-> v.w, rounds |-> v.rounds, key |-> v.key, block |-> v.pt],
              [w |-> v.w, rounds |-> v.rounds, key |-> v.key, block |-> v.ct] } :
            v \in Vectors }

Inputs ==
    KnownAnswers \cup
    UNION { { [w |-> wd, rounds |-> r, key |-> ky, block |-> bl] :
                r \in 0..MaxRounds, ky \in Keys, bl \in Blocks(wd) } :
            wd \in Widths }

None == <<>>

(***************************************************************************)
(* The calls: encrypt and decrypt of rc5.rs, each starting with its call   *)
(* of expand_key, run one loop iteration per step.                         *)
(***************************************************************************)
Start(inputs) ==
    /\ \E inp \in inputs :
          /\ w = inp.w
          /\ key = inp.key
          /\ rounds = inp.rounds
          /\ input = inp.block
          /\ arg = inp.block
    /\ overflow_checks \in BOOLEAN
    /\ order \in {<<"encrypt", "decrypt">>, <<"decrypt", "encrypt">>}
    /\ fn = order[1]
    /\ phase = 1
    /\ pc = "call"
    /\ c = 0 /\ t = 0 /\ i = 0 /\ j = 0 /\ k = 0 /\ round_i = 0
    /\ key_l = None /\ key_s = None /\ mix_a = None /\ mix_b = None
    /\ key_exp = None /\ a = None /\ b = None
    /\ out1 = None /\ out2 = None
    /\ shifts = {}
    /\ panicked = FALSE
    /\ rot_x = None /\ rot_y = None /\ rot_l = None /\ rot_r = None
    /\ rot_lr = None /\ rot_rl = None
    /\ s_updates = None /\ l_updates = None /\ enc_trace = None
    /\ lib_key_s = None /\ lib_out = None

Init == Start(Inputs)

rot_vars == <<rot_x, rot_y, rot_l, rot_r, rot_lr, rot_rl>>

input_vars == <<w, overflow_checks, key, rounds, input, order>>

call_vars == <<phase, fn, arg, out1, out2>>

expand_vars == <<c, t, key_l, key_s, i, j, k, mix_a, mix_b>>

block_vars == <<key_exp, a, b, round_i>>

count_vars == <<s_updates, l_updates>>

lib_vars == <<lib_key_s, lib_out>>

\* the running call panics: nothing of it is returned
Panic ==
    /\ pc' = "panicked"
    /\ panicked' = TRUE
    /\ UNCHANGED <<input_vars, call_vars, expand_vars, block_vars, shifts,
                   rot_vars, count_vars, enc_trace, lib_vars>>

\* expand_key with c = ceil(8b / w), the max with 1 left out
ExpandKeyBegin_no_max ==
    /\ pc = "call"
    /\ fn \in {"encrypt", "decrypt"}
    /\ LET len == VecLen(key)
           sum == usize_add(rounds, 1)
           len_t == usize_mul(2, sum.val)
       IN  IF overflow_checks /\ (sum.overflow \/ len_t.overflow)
           THEN Panic
           ELSE /\ t' = len_t.val
                /\ c' = (8 * len + w - 1) \div w
                /\ key_l' = VecOf(c', ZERO(w))
                /\ i' = len - 1
                /\ pc' = IF len > 0 THEN "pack" ELSE "init"
                /\ shifts' = {}
                /\ UNCHANGED <<input_vars, call_vars, key_s, j, k, mix_a, mix_b,
                               block_vars, panicked, rot_vars, count_vars,
                               enc_trace, lib_vars>>

\* expand_key with t = 2 * rounds + 1
ExpandKeyBegin_t_odd ==
    /\ pc = "call"
    /\ fn \in {"encrypt", "decrypt"}
    /\ LET len == VecLen(key)
           sum == usize_mul(2, rounds)
           len_t == usize_add(sum.val, 1)
       IN  IF overflow_checks /\ (sum.overflow \/ len_t.overflow)
           THEN Panic
           ELSE /\ t' = len_t.val
                /\ c' = Max(1, (8 * len + w - 1) \div w)
                /\ key_l' = VecOf(c', ZERO(w))
                /\ i' = len - 1
                /\ pc' = IF len > 0 THEN "pack" ELSE "init"
                /\ shifts' = {}
                /\ UNCHANGED <<input_vars, call_vars, key_s, j, k, mix_a, mix_b,
                               block_vars, panicked, rot_vars, count_vars,
                               enc_trace, lib_vars>>

\* expand_key, up to the packing loop: t, b, w, c, key_l, u
ExpandKeyBegin ==
    /\ pc = "call"
    /\ fn \in {"encrypt", "decrypt"}
    /\ LET len == VecLen(key)
           sum == usize_add(rounds, 1)
           len_t == usize_mul(2, sum.val)
       IN  IF overflow_checks /\ (sum.overflow \/ len_t.overflow)
           THEN Panic
           ELSE /\ t' = len_t.val
                /\ c' = Max(1, (8 * len + w - 1) \div w)
                /\ key_l' = VecOf(c', ZERO(w))
                /\ i' = len - 1
                /\ pc' = IF len > 0 THEN "pack" ELSE "init"
                /\ shifts' = {}
                /\ UNCHANGED <<input_vars, call_vars, key_s, j, k, mix_a, mix_b,
                               block_vars, panicked, rot_vars, count_vars,
                               enc_trace, lib_vars>>

\* the packing loop adding the byte before it shifts
PackByte_add_first ==
    /\ pc = "pack"
    /\ LET u  == w \div 8
           ix == i \div u
       IN  IF ix \notin DOMAIN key_l \/ i \notin DOMAIN key
           THEN Panic
           ELSE /\ key_l' = [key_l EXCEPT ![ix] =
                                wrapping_shl(w, wrapping_add(w, key_l[ix],
                                                            from_u8(w, key[i])), 8)]
                /\ i' = i - 1
                /\ pc' = IF i > 0 THEN "pack" ELSE "init"
                /\ UNCHANGED <<input_vars, call_vars, c, t, key_s, j, k, mix_a,
                               mix_b, block_vars, shifts, panicked,
                               rot_vars, count_vars, enc_trace, lib_vars>>

\* the packing loop taking the key bytes first to last
PackByte_forward ==
    /\ pc = "pack"
    /\ LET u  == w \div 8
           fi == VecLen(key) - 1 - i
           ix == fi \div u
       IN  IF ix \notin DOMAIN key_l \/ fi \notin DOMAIN key
           THEN Panic
           ELSE /\ key_l' = [key_l EXCEPT ![ix] =
                                wrapping_add(w, wrapping_shl(w, key_l[ix], 8),
                                                from_u8(w, key[fi]))]
                /\ i' = i - 1
                /\ pc' = IF i > 0 THEN "pack" ELSE "init"
                /\ UNCHANGED <<input_vars, call_vars, c, t, key_s, j, k, mix_a,
                               mix_b, block_vars, shifts, panicked,
                               rot_vars, count_vars, enc_trace, lib_vars>>

\* one iteration of `for i in (0..b).rev()`
PackByte ==
    /\ pc = "pack"
    /\ LET u  == w \div 8
           ix == i \div u
       IN  IF ix \notin DOMAIN key_l \/ i \notin DOMAIN key
           THEN Panic
           ELSE /\ key_l' = [key_l EXCEPT ![ix] =
                                wrapping_add(w, wrapping_shl(w, key_l[ix], 8),
                                                from_u8(w, key[i]))]
                /\ i' = i - 1
                /\ pc' = IF i > 0 THEN "pack" ELSE "init"
                /\ UNCHANGED <<input_vars, call_vars, c, t, key_s, j, k, mix_a,
                               mix_b, block_vars, shifts, panicked,
                               rot_vars, count_vars, enc_trace, lib_vars>>

\* key_s = vec![ZERO; t]; key_s[0] = P
InitTable ==
    /\ pc = "init"
    /\ IF 0 \notin 0..(t - 1)
       THEN Panic
       ELSE /\ key_s' = [VecOf(t, ZERO(w)) EXCEPT ![0] = P(w)]
            /\ i' = 1
            /\ pc' = IF 1 < t THEN "init_loop" ELSE "mix_begin"
            /\ UNCHANGED <<input_vars, call_vars, c, t, key_l, j, k, mix_a, mix_b,
                           block_vars, shifts, panicked,
                           rot_vars, count_vars, enc_trace, lib_vars>>

\* one iteration of `for i in 1..t`
InitNext ==
    /\ pc = "init_loop"
    /\ IF i \notin DOMAIN key_s \/ (i - 1) \notin DOMAIN key_s
       THEN Panic
       ELSE /\ key_s' = [key_s EXCEPT ![i] = wrapping_add(w, key_s[i - 1], Q(w))]
            /\ i' = i + 1
            /\ pc' = IF i + 1 < t THEN "init_loop" ELSE "mix_begin"
            /\ UNCHANGED <<input_vars, call_vars, c, t, key_l, j, k, mix_a, mix_b,
                           block_vars, shifts, panicked,
                           rot_vars, count_vars, enc_trace, lib_vars>>

\* i = 0; j = 0; a = ZERO; b = ZERO, and the range of the mixing loop
MixBegin ==
    /\ pc = "mix_begin"
    /\ i' = 0
    /\ j' = 0
    /\ mix_a' = ZERO(w)
    /\ mix_b' = ZERO(w)
    /\ k' = 0
    /\ pc' = IF 0 < 3 * Max(c, t) THEN "mix" ELSE "expanded"
    /\ s_updates' = VecOf(t, 0)
    /\ l_updates' = VecOf(c, 0)
    /\ UNCHANGED <<input_vars, call_vars, c, t, key_l, key_s, block_vars, shifts,
                   panicked, rot_vars, enc_trace, lib_vars>>

\* the mixing loop running 3 * t iterations
MixStep_3t ==
    /\ pc = "mix"
    /\ IF i \notin DOMAIN key_s \/ j \notin DOMAIN key_l
       THEN Panic
       ELSE LET rs == rotl_eval(w, wrapping_add(w, key_s[i], wrapping_add(w, mix_a, mix_b)),
                                   from_usize(w, 3))
                na == rs.val
                rl == rotl_eval(w, wrapping_add(w, key_l[j], wrapping_add(w, na, mix_b)),
                                   wrapping_add(w, na, mix_b))
                nb == rl.val
            IN  IF (overflow_checks /\ (rs.overflow \/ rl.overflow)) \/ t = 0 \/ c = 0
                THEN Panic
                ELSE /\ key_s' = [key_s EXCEPT ![i] = na]
                     /\ mix_a' = na
                     /\ key_l' = [key_l EXCEPT ![j] = nb]
                     /\ mix_b' = nb
                     /\ i' = (i + 1) % t
                     /\ j' = (j + 1) % c
                     /\ k' = k + 1
                     /\ shifts' = rs.shifts \cup rl.shifts
                     /\ pc' = IF k + 1 < 3 * t THEN "mix" ELSE "expanded"
                     /\ s_updates' = [s_updates EXCEPT ![i] = @ + 1]
                     /\ l_updates' = [l_updates EXCEPT ![j] = @ + 1]
                     /\ UNCHANGED <<input_vars, call_vars, c, t, block_vars,
                                    panicked, rot_vars, enc_trace, lib_vars>>

\* one iteration of `for _k in 0..3 * max(c, t)`
MixStep ==
    /\ pc = "mix"
    /\ IF i \notin DOMAIN key_s \/ j \notin DOMAIN key_l
       THEN Panic
       ELSE LET rs == rotl_eval(w, wrapping_add(w, key_s[i], wrapping_add(w, mix_a, mix_b)),
                                   from_usize(w, 3))
                na == rs.val
                rl == rotl_eval(w, wrapping_add(w, key_l[j], wrapping_add(w, na, mix_b)),
                                   wrapping_add(w, na, mix_b))
                nb == rl.val
            IN  IF (overflow_checks /\ (rs.overflow \/ rl.overflow)) \/ t = 0 \/ c = 0
                THEN Panic
                ELSE /\ key_s' = [key_s EXCEPT ![i] = na]
                     /\ mix_a' = na
                     /\ key_l' = [key_l EXCEPT ![j] = nb]
                     /\ mix_b' = nb
                     /\ i' = (i + 1) % t
                     /\ j' = (j + 1) % c
                     /\ k' = k + 1
                     /\ shifts' = rs.shifts \cup rl.shifts
                     /\ pc' = IF k + 1 < 3 * Max(c, t) THEN "mix" ELSE "expanded"
                     /\ s_updates' = [s_updates EXCEPT ![i] = @ + 1]
                     /\ l_updates' = [l_updates EXCEPT ![j] = @ + 1]
                     /\ UNCHANGED <<input_vars, call_vars, c, t, block_vars,
                                    panicked, rot_vars, enc_trace, lib_vars>>

\* encrypt: expand_key has returned key_s; a, b and the range of the round loop
EncryptBegin ==
    /\ pc = "expanded"
    /\ fn = "encrypt"
    /\ IF 0 \notin DOMAIN key_s \/ 1 \notin DOMAIN key_s
       THEN Panic
       ELSE /\ key_exp' = key_s
            /\ a' = wrapping_add(w, arg[0], key_s[0])
            /\ b' = wrapping_add(w, arg[1], key_s[1])
            /\ round_i' = 1
            /\ shifts' = {}
            /\ pc' = IF 1 <= rounds THEN "enc_round" ELSE "enc_return"
            /\ enc_trace' = <<Block(a', b')>>
            /\ UNCHANGED <<input_vars, call_vars, expand_vars, panicked, rot_vars,
                           count_vars, lib_vars>>

\* the round computing b from the a of the round before
EncryptRound_stale_a ==
    /\ pc = "enc_round"
    /\ IF (2 * round_i) \notin DOMAIN key_exp \/ (2 * round_i + 1) \notin DOMAIN key_exp
       THEN Panic
       ELSE LET ra == rotl_eval(w, BitXor(a, b), b)
                na == wrapping_add(w, ra.val, key_exp[2 * round_i])
                rb == rotl_eval(w, BitXor(b, a), a)
                nb == wrapping_add(w, rb.val, key_exp[2 * round_i + 1])
            IN  IF overflow_checks /\ (ra.overflow \/ rb.overflow)
                THEN Panic
                ELSE /\ a' = na
                     /\ b' = nb
                     /\ round_i' = round_i + 1
                     /\ shifts' = ra.shifts \cup rb.shifts
                     /\ pc' = IF round_i + 1 <= rounds THEN "enc_round" ELSE "enc_return"
                     /\ enc_trace' = Append(enc_trace, Block(a', b'))
                     /\ UNCHANGED <<input_vars, call_vars, expand_vars, key_exp,
                                    panicked, rot_vars, count_vars, lib_vars>>

\* one iteration of `for i in 1..=rounds`
EncryptRound ==
    /\ pc = "enc_round"
    /\ IF (2 * round_i) \notin DOMAIN key_exp \/ (2 * round_i + 1) \notin DOMAIN key_exp
       THEN Panic
       ELSE LET ra == rotl_eval(w, BitXor(a, b), b)
                na == wrapping_add(w, ra.val, key_exp[2 * round_i])
                rb == rotl_eval(w, BitXor(b, na), na)
                nb == wrapping_add(w, rb.val, key_exp[2 * round_i + 1])
            IN  IF overflow_checks /\ (ra.overflow \/ rb.overflow)
                THEN Panic
                ELSE /\ a' = na
                     /\ b' = nb
                     /\ round_i' = round_i + 1
                     /\ shifts' = ra.shifts \cup rb.shifts
                     /\ pc' = IF round_i + 1 <= rounds THEN "enc_round" ELSE "enc_return"
                     /\ enc_trace' = Append(enc_trace, Block(a', b'))
                     /\ UNCHANGED <<input_vars, call_vars, expand_vars, key_exp,
                                    panicked, rot_vars, count_vars, lib_vars>>

\* decrypt: expand_key has returned key_s; a, b and the range of the round loop
DecryptBegin ==
    /\ pc = "expanded"
    /\ fn = "decrypt"
    /\ key_exp' = key_s
    /\ a' = arg[0]
    /\ b' = arg[1]
    /\ round_i' = rounds
    /\ shifts' = {}
    /\ pc' = IF 1 <= rounds THEN "dec_round" ELSE "dec_return"
    /\ UNCHANGED <<input_vars, call_vars, expand_vars, panicked, rot_vars,
                   count_vars, enc_trace, lib_vars>>

\* the round taking the subkey of a for b and the subkey of b for a
DecryptRound_subkeys_swapped ==
    /\ pc = "dec_round"
    /\ IF (2 * round_i) \notin DOMAIN key_exp \/ (2 * round_i + 1) \notin DOMAIN key_exp
       THEN Panic
       ELSE LET rb == rotr_eval(w, wrapping_sub(w, b, key_exp[2 * round_i]), a)
                nb == BitXor(rb.val, a)
                ra == rotr_eval(w, wrapping_sub(w, a, key_exp[2 * round_i + 1]), nb)
                na == BitXor(ra.val, nb)
            IN  IF overflow_checks /\ (ra.overflow \/ rb.overflow)
                THEN Panic
                ELSE /\ a' = na
                     /\ b' = nb
                     /\ round_i' = round_i - 1
                     /\ shifts' = ra.shifts \cup rb.shifts
                     /\ pc' = IF round_i - 1 >= 1 THEN "dec_round" ELSE "dec_return"
                     /\ UNCHANGED <<input_vars, call_vars, expand_vars, key_exp,
                                    panicked,
                                    rot_vars, count_vars, enc_trace, lib_vars>>

\* the round undoing a before b
DecryptRound_a_first ==
    /\ pc = "dec_round"
    /\ IF (2 * round_i) \notin DOMAIN key_exp \/ (2 * round_i + 1) \notin DOMAIN key_exp
       THEN Panic
       ELSE LET ra == rotr_eval(w, wrapping_sub(w, a, key_exp[2 * round_i]), b)
                na == BitXor(ra.val, b)
                rb == rotr_eval(w, wrapping_sub(w, b, key_exp[2 * round_i + 1]), na)
                nb == BitXor(rb.val, na)
            IN  IF overflow_checks /\ (ra.overflow \/ rb.overflow)
                THEN Panic
                ELSE /\ a' = na
                     /\ b' = nb
                     /\ round_i' = round_i - 1
                     /\ shifts' = ra.shifts \cup rb.shifts
                     /\ pc' = IF round_i - 1 >= 1 THEN "dec_round" ELSE "dec_return"
                     /\ UNCHANGED <<input_vars, call_vars, expand_vars, key_exp,
                                    panicked,
                                    rot_vars, count_vars, enc_trace, lib_vars>>

\* one iteration of `for i in (1..=rounds).rev()`
DecryptRound ==
    /\ pc = "dec_round"
    /\ IF (2 * round_i) \notin DOMAIN key_exp \/ (2 * round_i + 1) \notin DOMAIN key_exp
       THEN Panic
       ELSE LET rb == rotr_eval(w, wrapping_sub(w, b, key_exp[2 * round_i + 1]), a)
                nb == BitXor(rb.val, a)
                ra == rotr_eval(w, wrapping_sub(w, a, key_exp[2 * round_i]), nb)
                na == BitXor(ra.val, nb)
            IN  IF overflow_checks /\ (ra.overflow \/ rb.overflow)
                THEN Panic
                ELSE /\ a' = na
                     /\ b' = nb
                     /\ round_i' = round_i - 1
                     /\ shifts' = ra.shifts \cup rb.shifts
                     /\ pc' = IF round_i - 1 >= 1 THEN "dec_round" ELSE "dec_return"
                     /\ UNCHANGED <<input_vars, call_vars, expand_vars, key_exp,
                                    panicked,
                                    rot_vars, count_vars, enc_trace, lib_vars>>

\* the call returns `result`: the first call hands it to the second
Return(result) ==
    /\ IF phase = 1
       THEN /\ out1' = result
            /\ phase' = 2
            /\ fn' = order[2]
            /\ arg' = result
            /\ pc' = "call"
            /\ UNCHANGED out2
       ELSE /\ out2' = result
            /\ pc' = "done"
            /\ UNCHANGED <<out1, phase, fn, arg>>
    /\ c' = 0 /\ t' = 0 /\ i' = 0 /\ j' = 0 /\ k' = 0 /\ round_i' = 0
    /\ key_l' = None /\ key_s' = None /\ mix_a' = None /\ mix_b' = None
    /\ key_exp' = None /\ a' = None /\ b' = None
    /\ shifts' = {}
    /\ UNCHANGED <<input_vars, panicked, rot_vars, count_vars, enc_trace, lib_vars>>

\* [a, b]
EncryptReturn ==
    /\ pc = "enc_return"
    /\ Return(Block(a, b))

\* the return subtracting key_exp[0] from both words
DecryptReturn_same_subkey ==
    /\ pc = "dec_return"
    /\ IF 0 \notin DOMAIN key_exp \/ 1 \notin DOMAIN key_exp
       THEN Panic
       ELSE Return(Block(wrapping_sub(w, a, key_exp[0]),
                         wrapping_sub(w, b, key_exp[0])))

\* [a.wrapping_sub(&key_exp[0]), b.wrapping_sub(&key_exp[1])]
DecryptReturn ==
    /\ pc = "dec_return"
    /\ IF 0 \notin DOMAIN key_exp \/ 1 \notin DOMAIN key_exp
       THEN Panic
       ELSE Return(Block(wrapping_sub(w, a, key_exp[0]),
                         wrapping_sub(w, b, key_exp[1])))

Next ==
    \/ ExpandKeyBegin
    \/ PackByte
    \/ InitTable
    \/ InitNext
    \/ MixBegin
    \/ MixStep
    \/ EncryptBegin
    \/ EncryptRound
    \/ DecryptBegin
    \/ DecryptRound
    \/ EncryptReturn
    \/ DecryptReturn

Spec == Init /\ [][Next]_vars

(***************************************************************************)
(* The same calls with round counts at the end of usize, where the table   *)
(* length 2 * (rounds + 1) is no usize, next to calls with one round.      *)
(***************************************************************************)
\* the round counts r with rounds + 1 or 2 * (rounds + 1) above usize::MAX
UnrepresentableRounds == {usize_MAX \div 2, usize_MAX}

LengthInputs ==
    {inp \in Inputs : inp.rounds = 1} \cup
    UNION { { [w |-> wd, rounds |-> r, key |-> ky, block |-> bl] :
                r \in UnrepresentableRounds, ky \in Keys, bl \in Blocks(wd) } :
            wd \in Widths }

LengthInit == Start(LengthInputs)

LengthSpec == LengthInit /\ [][Next]_vars

(***************************************************************************)
(* lib.rs: encode::<W,T> and decode::<W,T>, each starting with its call of *)
(* expand_key::<W,T>, run one loop iteration per step.  The locals of the  *)
(* three functions bear the names of their counterparts in rc5.rs and are  *)
(* held in the same variables; the const parameter T is held in t.  When   *)
(* the call has returned, encrypt (after encode) or decrypt (after decode) *)
(* of rc5.rs is called on the same key, the words of the same block and    *)
(* T/2 - 1 rounds.                                                         *)
(***************************************************************************)
LegacyFns == {"encode", "decode"}

\* let r = T/2-1
LegacyRounds == usize_sub(t \div 2, 1)

\* expand_key::<W,T>, up to the packing loop: key_s, b, c, key_l, u and the
\* range 0..=(b-1)
LegacyExpandKeyBegin ==
    /\ pc = "call"
    /\ fn \in LegacyFns
    /\ LET len  == VecLen(key)
           last == usize_sub(len, 1)
       IN  IF overflow_checks /\ last.overflow
           THEN Panic
           ELSE /\ key_s' = VecOf(t, ZERO(w))
                /\ c' = Max(1, (8 * len + (w - 1)) \div w)
                /\ key_l' = VecOf(c', ZERO(w))
                /\ i' = last.val
                /\ pc' = "lib_pack"
                /\ shifts' = {}
                /\ UNCHANGED <<input_vars, call_vars, t, j, k, mix_a, mix_b,
                               block_vars, panicked, rot_vars, count_vars,
                               enc_trace, lib_vars>>

\* one iteration of `for i in (0..=(b-1)).rev()`
LegacyPackByte ==
    /\ pc = "lib_pack"
    /\ LET u  == BYTES(w)
           ix == i \div u
       IN  IF ix \notin DOMAIN key_l \/ i \notin DOMAIN key
           THEN Panic
           ELSE LET sum == Add(w, Shl(w, key_l[ix], EIGHT(w)), from_u8(w, key[i]))
                IN  IF overflow_checks /\ (ShiftOverflows(w, EIGHT(w)) \/ sum.overflow)
                    THEN Panic
                    ELSE /\ key_l' = [key_l EXCEPT ![ix] = sum.val]
                         /\ i' = i - 1
                         /\ pc' = IF i > 0 THEN "lib_pack" ELSE "lib_init"
                         /\ UNCHANGED <<input_vars, call_vars, c, t, key_s, j, k,
                                        mix_a, mix_b, block_vars, shifts, panicked,
                                        rot_vars, count_vars, enc_trace, lib_vars>>

\* key_s[0] = W::P and the range 1..=(T-1)
LegacyInitTable ==
    /\ pc = "lib_init"
    /\ IF 0 \notin DOMAIN key_s \/ (overflow_checks /\ usize_sub(t, 1).overflow)
       THEN Panic
       ELSE /\ key_s' = [key_s EXCEPT ![0] = P(w)]
            /\ i' = 1
            /\ pc' = IF 1 <= usize_sub(t, 1).val THEN "lib_init_loop" ELSE "lib_mix_begin"
            /\ UNCHANGED <<input_vars, call_vars, c, t, key_l, j, k, mix_a, mix_b,
                           block_vars, shifts, panicked,
                           rot_vars, count_vars, enc_trace, lib_vars>>

\* one iteration of `for i in 1..=(T-1)`
LegacyInitNext ==
    /\ pc = "lib_init_loop"
    /\ IF i \notin DOMAIN key_s \/ (i - 1) \notin DOMAIN key_s
       THEN Panic
       ELSE LET sum == Add(w, key_s[i - 1], Q(w))
            IN  IF overflow_checks /\ sum.overflow
                THEN Panic
                ELSE /\ key_s' = [key_s EXCEPT ![i] = sum.val]
                     /\ i' = i + 1
                     /\ pc' = IF i + 1 <= t - 1 THEN "lib_init_loop" ELSE "lib_mix_begin"
                     /\ UNCHANGED <<input_vars, call_vars, c, t, key_l, j, k, mix_a,
                                    mix_b, block_vars, shifts, panicked,
                                    rot_vars, count_vars, enc_trace, lib_vars>>

\* i = 0; j = 0; a = ZERO; b = ZERO, and the range of the mixing loop
LegacyMixBegin ==
    /\ pc = "lib_mix_begin"
    /\ i' = 0
    /\ j' = 0
    /\ mix_a' = ZERO(w)
    /\ mix_b' = ZERO(w)
    /\ k' = 0
    /\ pc' = IF 0 < 3 * Max(c, t) THEN "lib_mix" ELSE "lib_expanded"
    /\ UNCHANGED <<input_vars, call_vars, c, t, key_l, key_s, block_vars, shifts,
                   panicked, rot_vars, count_vars, enc_trace, lib_vars>>

\* one iteration of `for _k in 0..3*std::cmp::max(c, T)`
LegacyMixStep ==
    /\ pc = "lib_mix"
    /\ IF i \notin DOMAIN key_s \/ j \notin DOMAIN key_l
       THEN Panic
       ELSE LET ab  == Add(w, mix_a, mix_b)
                ss  == Add(w, key_s[i], ab.val)
                rs  == rotl_macro(w, ss.val, THREE(w))
                na  == rs.val
                nab == Add(w, na, mix_b)
                sl  == Add(w, key_l[j], nab.val)
                rl  == rotl_macro(w, sl.val, nab.val)
                nb  == rl.val
            IN  IF \/ overflow_checks /\ (ab.overflow \/ ss.overflow \/ rs.overflow)
                   \/ overflow_checks /\ (nab.overflow \/ sl.overflow \/ rl.overflow)
                   \/ t = 0 \/ c = 0
                THEN Panic
                ELSE /\ key_s' = [key_s EXCEPT ![i] = na]
                     /\ mix_a' = na
                     /\ key_l' = [key_l EXCEPT ![j] = nb]
                     /\ mix_b' = nb
                     /\ i' = (i + 1) % t
                     /\ j' = (j + 1) % c
                     /\ k' = k + 1
                     /\ shifts' = rs.shifts \cup rl.shifts
                     /\ pc' = IF k + 1 < 3 * Max(c, t) THEN "lib_mix" ELSE "lib_expanded"
                     /\ UNCHANGED <<input_vars, call_vars, c, t, block_vars,
                                    panicked, rot_vars, count_vars, enc_trace, lib_vars>>

\* encode: expand_key has returned key_s; r, a, b and the range of the round loop
LegacyEncodeBegin ==
    /\ pc = "lib_expanded"
    /\ fn = "encode"
    /\ LET u == BYTES(w)
       IN  IF \/ overflow_checks /\ LegacyRounds.overflow
              \/ ~SliceInRange(arg, 0, u) \/ ~SliceInRange(arg, u, 2 * u)
              \/ 0 \notin DOMAIN key_s \/ 1 \notin DOMAIN key_s
           THEN Panic
           ELSE LET na == Add(w, from_le_bytes(w, Slice(arg, 0, u)), key_s[0])
                    nb == Add(w, from_le_bytes(w, Slice(arg, u, 2 * u)), key_s[1])
                IN  IF overflow_checks /\ (na.overflow \/ nb.overflow)
                    THEN Panic
                    ELSE /\ key_exp' = key_s
                         /\ lib_key_s' = key_s
                         /\ a' = na.val
                         /\ b' = nb.val
                         /\ round_i' = 1
                         /\ shifts' = {}
                         /\ pc' = IF 1 <= LegacyRounds.val
                                  THEN "lib_enc_round" ELSE "lib_enc_return"
                         /\ UNCHANGED <<input_vars, call_vars, expand_vars, panicked,
                                        rot_vars, count_vars, enc_trace, lib_out>>

\* one iteration of `for i in 1..=r` of encode
LegacyEncodeRound ==
    /\ pc = "lib_enc_round"
    /\ IF (2 * round_i) \notin DOMAIN key_exp \/ (2 * round_i + 1) \notin DOMAIN key_exp
       THEN Panic
       ELSE LET ra == rotl_macro(w, BitXor(a, b), b)
                na == Add(w, ra.val, key_exp[2 * round_i])
                rb == rotl_macro(w, BitXor(b, na.val), na.val)
                nb == Add(w, rb.val, key_exp[2 * round_i + 1])
            IN  IF overflow_checks
                   /\ (ra.overflow \/ na.overflow \/ rb.overflow \/ nb.overflow)
                THEN Panic
                ELSE /\ a' = na.val
                     /\ b' = nb.val
                     /\ round_i' = round_i + 1
                     /\ shifts' = ra.shifts \cup rb.shifts
                     /\ pc' = IF round_i + 1 <= LegacyRounds.val
                              THEN "lib_enc_round" ELSE "lib_enc_return"
                     /\ UNCHANGED <<input_vars, call_vars, expand_vars, key_exp,
                                    panicked, rot_vars, count_vars, enc_trace, lib_vars>>

\* decode: expand_key has returned key_s; r, a, b and the range of the round loop
LegacyDecodeBegin ==
    /\ pc = "lib_expanded"
    /\ fn = "decode"
    /\ LET u == BYTES(w)
       IN  IF \/ overflow_checks /\ LegacyRounds.overflow
              \/ ~SliceInRange(arg, 0, u) \/ ~SliceInRange(arg, u, 2 * u)
           THEN Panic
           ELSE /\ key_exp' = key_s
                /\ lib_key_s' = key_s
                /\ a' = from_le_bytes(w, Slice(arg, 0, u))
                /\ b' = from_le_bytes(w, Slice(arg, u, 2 * u))
                /\ round_i' = LegacyRounds.val
                /\ shifts' = {}
                /\ pc' = IF 1 <= LegacyRounds.val
                         THEN "lib_dec_round" ELSE "lib_dec_return"
                /\ UNCHANGED <<input_vars, call_vars, expand_vars, panicked,
                               rot_vars, count_vars, enc_trace, lib_out>>

\* one iteration of `for i in (1..=r).rev()` of decode
LegacyDecodeRound ==
    /\ pc = "lib_dec_round"
    /\ IF (2 * round_i) \notin DOMAIN key_exp \/ (2 * round_i + 1) \notin DOMAIN key_exp
       THEN Panic
       ELSE LET sb == Sub(w, b, key_exp[2 * round_i + 1])
                rb == rotr_macro(w, sb.val, a)
                nb == BitXor(rb.val, a)
                sa == Sub(w, a, key_exp[2 * round_i])
                ra == rotr_macro(w, sa.val, nb)
                na == BitXor(ra.val, nb)
            IN  IF overflow_checks
                   /\ (sb.overflow \/ rb.overflow \/ sa.overflow \/ ra.overflow)
                THEN Panic
                ELSE /\ a' = na
                     /\ b' = nb
                     /\ round_i' = round_i - 1
                     /\ shifts' = ra.shifts \cup rb.shifts
                     /\ pc' = IF round_i - 1 >= 1 THEN "lib_dec_round" ELSE "lib_dec_return"
                     /\ UNCHANGED <<input_vars, call_vars, expand_vars, key_exp,
                                    panicked, rot_vars, count_vars, enc_trace, lib_vars>>

\* the call of lib.rs returns `bytes`; the function of rc5.rs is called next
LegacyReturn(bytes) ==
    /\ lib_out' = bytes
    /\ phase' = 2
    /\ fn' = order[2]
    /\ arg' = Block(from_le_bytes(w, Slice(input, 0, BYTES(w))),
                    from_le_bytes(w, Slice(input, BYTES(w), 2 * BYTES(w))))
    /\ pc' = "call"
    /\ c' = 0 /\ t' = 0 /\ i' = 0 /\ j' = 0 /\ k' = 0 /\ round_i' = 0
    /\ key_l' = None /\ key_s' = None /\ mix_a' = None /\ mix_b' = None
    /\ key_exp' = None /\ a' = None /\ b' = None
    /\ shifts' = {}
    /\ UNCHANGED <<input_vars, out1, out2, panicked, rot_vars, count_vars,
                   enc_trace, lib_key_s>>

\* [W::to_le_bytes(a).as_slice(), W::to_le_bytes(b).as_slice()].concat()
LegacyEncodeReturn ==
    /\ pc = "lib_enc_return"
    /\ LegacyReturn(Concat(to_le_bytes(w, a), to_le_bytes(w, b)))

\* the same of a - key_exp[0] and b - key_exp[1]
LegacyDecodeReturn ==
    /\ pc = "lib_dec_return"
    /\ IF 0 \notin DOMAIN key_exp \/ 1 \notin DOMAIN key_exp
       THEN Panic
       ELSE LET ra == Sub(w, a, key_exp[0])
                rb == Sub(w, b, key_exp[1])
            IN  IF overflow_checks /\ (ra.overflow \/ rb.overflow)
                THEN Panic
                ELSE LegacyReturn(Concat(to_le_bytes(w, ra.val), to_le_bytes(w, rb.val)))

\* the table lengths T = 2 (r + 1) of the round counts of the exploration
TableLengths == {2 * (r + 1) : r \in 0..MaxRounds}

\* the bytes of a block of two words
BlockBytes(W, block) == Concat(to_le_bytes(W, block[0]), to_le_bytes(W, block[1]))

\* a block one byte short and a block one byte long
ShortBlock(W) == Slice(BlockBytes(W, Block(P(W), Q(W))), 0, 2 * BYTES(W) - 1)

LongBlock(W) == Concat(BlockBytes(W, Block(P(W), Q(W))), VecFrom(<<\hAA>>))

ByteBlocks(W) ==
    {BlockBytes(W, bl) : bl \in Blocks(W)} \cup {ShortBlock(W), LongBlock(W)}

\* the vectors of the unit tests encode_8_12_4 and encode_16_16_8 of lib.rs
LegacyVector_8_12_4 ==
    [w |-> 8, t |-> 26, key |-> VecFrom(<<0, 1, 2, 3>>),
     pt |-> VecFrom(<<\h00, \h01>>), ct |-> VecFrom(<<\h21, \h2A>>)]

LegacyVector_16_16_8 ==
    [w |-> 16, t |-> 34, key |-> VecFrom(<<0, 1, 2, 3, 4, 5, 6, 7>>),
     pt |-> VecFrom(<<\h00, \h01, \h02, \h03>>),
     ct |-> VecFrom(<<\h23, \hA8, \hD7, \h2E>>)]

LegacyVectors == {LegacyVector_8_12_4, LegacyVector_16_16_8}

LegacyInputs ==
    {[w |-> v.w, t |-> v.t, key |-> v.key, block |-> v.pt] : v \in LegacyVectors}
    \cup
    UNION { { [w |-> wd, t |-> tl, key |-> ky, block |-> bl] :
                tl \in TableLengths, ky \in Keys, bl \in ByteBlocks(wd) } :
            wd \in Widths }

LegacyInit ==
    /\ \E inp \in LegacyInputs :
          /\ w = inp.w
          /\ key = inp.key
          /\ t = inp.t
          /\ rounds = inp.t \div 2 - 1
          /\ input = inp.block
          /\ arg = inp.block
    /\ overflow_checks \in BOOLEAN
    /\ order \in {<<"encode", "encrypt">>, <<"decode", "decrypt">>}
    /\ fn = order[1]
    /\ phase = 1
    /\ pc = "call"
    /\ c = 0 /\ i = 0 /\ j = 0 /\ k = 0 /\ round_i = 0
    /\ key_l = None /\ key_s = None /\ mix_a = None /\ mix_b = None
    /\ key_exp = None /\ a = None /\ b = None
    /\ out1 = None /\ out2 = None
    /\ shifts = {}
    /\ panicked = FALSE
    /\ rot_x = None /\ rot_y = None /\ rot_l = None /\ rot_r = None
    /\ rot_lr = None /\ rot_rl = None
    /\ s_updates = None /\ l_updates = None /\ enc_trace = None
    /\ lib_key_s = None /\ lib_out = None

LegacyNext ==
    \/ LegacyExpandKeyBegin
    \/ LegacyPackByte
    \/ LegacyInitTable
    \/ LegacyInitNext
    \/ LegacyMixBegin
    \/ LegacyMixStep
    \/ LegacyEncodeBegin
    \/ LegacyEncodeRound
    \/ LegacyDecodeBegin
    \/ LegacyDecodeRound
    \/ LegacyEncodeReturn
    \/ LegacyDecodeReturn
    \/ Next

LegacySpec == LegacyInit /\ [][LegacyNext]_vars

(***************************************************************************)
(* rotl and rotr called on their own: rotl(x, y) and rotr(x, y), then each *)
(* result rotated back by the same amount.                                 *)
(***************************************************************************)
\* every u8; for the wider types the one-bit words, the literals of the
\* unit tests and the all-ones word
RotWords(W) ==
    CASE W = 8  -> {<<v>> : v \in 0..255}
      [] W = 16 -> {Literal(<<\h0077>>), Literal(<<\h0001>>), Literal(<<\h8000>>),
                    Literal(<<\hA823>>), Literal(<<\hFFFF>>)}
      [] W = 32 -> {Literal(<<\h0000, \h0077>>), Literal(<<\h0000, \h0001>>),
                    Literal(<<\h8000, \h0000>>), Literal(<<\h9B14, \hDC2D>>),
                    Literal(<<\hFFFF, \hFFFF>>)}

\* every u8; for the wider types 0 .. 2W+1 and the amounts above with the
\* high bits set
RotAmounts(W) ==
    CASE W = 8  -> {<<v>> : v \in 0..255}
      [] OTHER  -> {from_usize(W, v) : v \in 0..(2 * W + 1)} \cup RotWords(W)

RotInit ==
    /\ w \in Widths
    /\ rot_x \in RotWords(w)
    /\ rot_y \in RotAmounts(w)
    /\ overflow_checks \in BOOLEAN
    /\ pc = "rot"
    /\ key = None /\ rounds = 0 /\ input = None /\ arg = None
    /\ order = None /\ fn = "rot" /\ phase = 1
    /\ c = 0 /\ t = 0 /\ i = 0 /\ j = 0 /\ k = 0 /\ round_i = 0
    /\ key_l = None /\ key_s = None /\ mix_a = None /\ mix_b = None
    /\ key_exp = None /\ a = None /\ b = None
    /\ out1 = None /\ out2 = None
    /\ shifts = {}
    /\ panicked = FALSE
    /\ rot_l = None /\ rot_r = None /\ rot_lr = None /\ rot_rl = None
    /\ s_updates = None /\ l_updates = None /\ enc_trace = None
    /\ lib_key_s = None /\ lib_out = None

\* rotl(x, y); rotr(x, y)
Rotate ==
    /\ pc = "rot"
    /\ LET l == rotl_eval(w, rot_x, rot_y)
           r == rotr_eval(w, rot_x, rot_y)
       IN  IF overflow_checks /\ (l.overflow \/ r.overflow)
           THEN Panic
           ELSE /\ rot_l' = l.val
                /\ rot_r' = r.val
                /\ shifts' = l.shifts \cup r.shifts
                /\ pc' = "rot_back"
                /\ UNCHANGED <<input_vars, call_vars, expand_vars, block_vars,
                               panicked, rot_x, rot_y, rot_lr, rot_rl,
                               count_vars, enc_trace, lib_vars>>

\* rotr(rotl(x, y), y); rotl(rotr(x, y), y)
RotateBack ==
    /\ pc = "rot_back"
    /\ LET r == rotr_eval(w, rot_l, rot_y)
           l == rotl_eval(w, rot_r, rot_y)
       IN  IF overflow_checks /\ (l.overflow \/ r.overflow)
           THEN Panic
           ELSE /\ rot_lr' = r.val
                /\ rot_rl' = l.val
                /\ shifts' = l.shifts \cup r.shifts
                /\ pc' = "rot_done"
                /\ UNCHANGED <<input_vars, call_vars, expand_vars, block_vars,
                               panicked, rot_x, rot_y, rot_l, rot_r,
                               count_vars, enc_trace, lib_vars>>

RotNext == Rotate \/ RotateBack

RotSpec == RotInit /\ [][RotNext]_vars

(***************************************************************************)
(* The claims.                                                             *)
(***************************************************************************)
EncryptDecrypt == <<"encrypt", "decrypt">>

DecryptEncrypt == <<"decrypt", "encrypt">>

TableLength == 2 * (rounds + 1)

\* C1: round trip. When encrypt(pt, key, r) and then decrypt of its result
\* under the same key and r have returned, the second result is pt; neither
\* call panics. Every width, round count, key (the empty one included) and
\* block of the inputs.
C1_RoundTrip ==
    order = EncryptDecrypt =>
        /\ pc # "panicked"
        /\ pc = "done" => out2 = input

\* an empty key, at least one round: encrypt changed the block, decrypt restored it
C1_Witness ==
    /\ order = EncryptDecrypt
    /\ pc = "done"
    /\ VecLen(key) = 0
    /\ rounds > 0
    /\ out1 # input
    /\ out2 = input

\* what a call on a known-answer vector must return: encrypt of the plaintext
\* the ciphertext, decrypt of the ciphertext the plaintext, without a panic
KnownAnswer(v) ==
    (w = v.w /\ rounds = v.rounds /\ key = v.key) =>
        /\ pc # "panicked"
        /\ (phase = 2 /\ order[1] = "encrypt" /\ input = v.pt) => out1 = v.ct
        /\ (phase = 2 /\ order[1] = "decrypt" /\ input = v.ct) => out1 = v.pt

\* both calls of encrypt-then-decrypt on a vector's plaintext have returned
KnownAnswerReached(v) ==
    /\ w = v.w /\ rounds = v.rounds /\ key = v.key
    /\ order = EncryptDecrypt
    /\ input = v.pt
    /\ pc = "done"
    /\ out1 = v.ct
    /\ out2 = v.pt

\* C2: RC5-8/12/4. With w = 8, r = 12 and the key 00 01 02 03, encrypt of
\* [0x00, 0x01] returns [0x21, 0x2A] and decrypt of [0x21, 0x2A] returns
\* [0x00, 0x01].
C2_KnownAnswer_8_12_4 == KnownAnswer(Vector_8_12_4)

C2_Witness == KnownAnswerReached(Vector_8_12_4)

\* C3: RC5-16/16/8. With w = 16, r = 16 and the key 00 .. 07, encrypt of
\* [0x0100, 0x0302] returns [0xA823, 0x2ED7] and decrypt of that ciphertext
\* returns [0x0100, 0x0302].
C3_KnownAnswer_16_16_8 == KnownAnswer(Vector_16_16_8)

C3_Witness == KnownAnswerReached(Vector_16_16_8)

\* C4: RC5-32/12/16. With w = 32, r = 12 and the key 00 .. 0F, encrypt of
\* [0x33221100, 0x77665544] returns [0x9B14DC2D, 0x9E8B08CF] and decrypt of
\* that ciphertext returns the plaintext.
C4_KnownAnswer_32_12_16 == KnownAnswer(Vector_32_12_16)

C4_Witness == KnownAnswerReached(Vector_32_12_16)

\* C5: encrypt reaches every block. When decrypt(ct, key, r) and then encrypt
\* of its result under the same key and r have returned, the second result
\* is ct; neither call panics. Every block ct of the inputs.
C5_EncryptOfDecrypt ==
    order = DecryptEncrypt =>
        /\ pc # "panicked"
        /\ pc = "done" => out2 = input

\* a full-length key, at least one round: decrypt changed the block, encrypt restored it
C5_Witness ==
    /\ order = DecryptEncrypt
    /\ pc = "done"
    /\ VecLen(key) = MaxKeyLen
    /\ rounds > 0
    /\ out1 # input
    /\ out2 = input

\* bit n of the word x
BitAt(W, x, n) == (x[(n \div LimbBits(W)) + 1] \div (2 ^ (n % LimbBits(W)))) % 2

RECURSIVE ValueMod(_, _, _, _)
\* the value of limbs n and up of x, shifted down to limb n, modulo m
ValueMod(W, x, n, m) ==
    IF n > Len(x) THEN 0
    ELSE (x[n] + (Base(W) % m) * ValueMod(W, x, n + 1, m)) % m

\* the amount y of the rotation harness as an integer modulo w
RotationAmount == ValueMod(w, rot_y, 1, w)

\* C6: rotl(x, y) and rotr(x, y) are the cyclic rotations of x by y mod w
\* positions: bit n of x is bit (n + y) mod w of rotl(x, y), and bit
\* (n + y) mod w of x is bit n of rotr(x, y); with y a multiple of w (0
\* included) both return x.
C6_RotationIsCyclic ==
    /\ pc # "panicked"
    /\ pc \in {"rot_back", "rot_done"} =>
        /\ \A n \in 0..(w - 1) :
              /\ BitAt(w, rot_l, (n + RotationAmount) % w) = BitAt(w, rot_x, n)
              /\ BitAt(w, rot_r, n) = BitAt(w, rot_x, (n + RotationAmount) % w)
        /\ RotationAmount = 0 => (rot_l = rot_x /\ rot_r = rot_x)

\* an amount of w or more that is no multiple of w, and a word it moves
C6_Witness ==
    /\ pc = "rot_back"
    /\ ~Less(rot_y, from_usize(w, w))
    /\ RotationAmount # 0
    /\ rot_l # rot_x
    /\ rot_r # rot_x
    /\ rot_l # rot_r

\* C7: rotation inverse law. rotr(rotl(x, y), y) = x and rotl(rotr(x, y), y) = x
\* for every word x and every amount y, those of w or more and 0 included.
C7_RotationInverse ==
    /\ pc # "panicked"
    /\ pc = "rot_done" => (rot_lr = rot_x /\ rot_rl = rot_x)

\* an amount of w or more: the rotation moved the word, the converse restored it
C7_Witness ==
    /\ pc = "rot_done"
    /\ ~Less(rot_y, from_usize(w, w))
    /\ rot_l # rot_x
    /\ rot_r # rot_x
    /\ rot_lr = rot_x
    /\ rot_rl = rot_x

RECURSIVE Progression(_, _)
\* P + n * Q modulo 2^W
Progression(W, n) ==
    IF n = 0 THEN P(W) ELSE wrapping_add(W, Progression(W, n - 1), Q(W))

RECURSIVE MixEmpty(_, _, _, _, _, _, _)
\* the mixing of a table S with the single key word L, n of `total` steps done
MixEmpty(W, S, L, A, B, n, total) ==
    IF n = total THEN S
    ELSE LET ix == n % VecLen(S)
             A2 == rotl(W, wrapping_add(W, S[ix], wrapping_add(W, A, B)),
                        from_usize(W, 3))
             B2 == rotl(W, wrapping_add(W, L, wrapping_add(W, A2, B)),
                        wrapping_add(W, A2, B))
         IN  MixEmpty(W, [S EXCEPT ![ix] = A2], B2, A2, B2, n + 1, total)

\* the table of the empty key, from P, Q and r alone
EmptyKeyTable(W, r) ==
    MixEmpty(W, [n \in 0..(2 * (r + 1) - 1) |-> Progression(W, n)],
             ZERO(W), ZERO(W), ZERO(W), 0, 3 * 2 * (r + 1))

\* C8: expand_key with an empty key does not panic: c = 1, the one key
\* word starts as 0, the mixing loop runs its 3 * max(1, T) iterations, and
\* the table returned has T words and is the one P, Q and r determine.
C8_EmptyKeyExpands ==
    VecLen(key) = 0 =>
        /\ pc \notin {"panicked", "pack"}
        /\ pc \in {"init", "init_loop", "mix_begin"} =>
              (c = 1 /\ key_l = VecOf(1, ZERO(w)))
        /\ pc = "mix" => (c = 1 /\ j = 0 /\ VecLen(key_l) = 1)
        /\ pc = "expanded" =>
              /\ k = 3 * Max(1, TableLength)
              /\ VecLen(key_s) = TableLength
              /\ key_s = EmptyKeyTable(w, rounds)

\* expand_key has returned for an empty key, the first table entry mixed away from P
C8_Witness ==
    /\ VecLen(key) = 0
    /\ pc = "expanded"
    /\ rounds = MaxRounds
    /\ k = 3 * TableLength
    /\ key_s[0] # P(w)

\* C9: the table expand_key returns has exactly T = 2 (r + 1) words, at
\* indices 0 .. T-1: an even number, at least 2, and 2 for r = 0; each round
\* of encrypt and decrypt reads indices 2i and 2i + 1 within it.
C9_TableShape ==
    /\ pc # "panicked"
    /\ pc \in {"init_loop", "mix_begin", "mix", "expanded"} =>
          DOMAIN key_s = 0..(TableLength - 1)
    /\ pc \in {"enc_round", "dec_round", "enc_return", "dec_return"} =>
          /\ DOMAIN key_exp = 0..(TableLength - 1)
          /\ VecLen(key_exp) % 2 = 0
          /\ VecLen(key_exp) >= 2
          /\ rounds = 0 => VecLen(key_exp) = 2
    /\ pc \in {"enc_round", "dec_round"} =>
          /\ round_i \in 1..rounds
          /\ {2 * round_i, 2 * round_i + 1} \subseteq DOMAIN key_exp

\* the round that reads the last two entries of the table
C9_Witness ==
    /\ pc = "dec_round"
    /\ rounds = MaxRounds
    /\ round_i = rounds
    /\ 2 * round_i + 1 = VecLen(key_exp) - 1

\* x is a value of the type of width W
WordOK(W, x) ==
    /\ DOMAIN x = 1..Limbs(W)
    /\ \A n \in DOMAIN x : x[n] \in 0..(Base(W) - 1)

\* C10: no call panics. Every sum and difference is a word (taken modulo
\* 2^w), every amount rotl and rotr shift by is in 1 .. w-1 (so w - a is
\* never below zero), and every index into key, L and S is in range.
C10_NoTrap ==
    /\ ~panicked
    /\ pc # "panicked"
    /\ \A s \in shifts : 1 <= s /\ s <= w - 1
    /\ pc = "pack" => (i \in DOMAIN key /\ (i \div (w \div 8)) \in DOMAIN key_l)
    /\ pc = "init_loop" => (i \in DOMAIN key_s /\ (i - 1) \in DOMAIN key_s)
    /\ pc = "mix" => (i \in DOMAIN key_s /\ j \in DOMAIN key_l)
    /\ pc \in {"enc_round", "dec_round"} =>
          {2 * round_i, 2 * round_i + 1} \subseteq DOMAIN key_exp
    /\ pc \in {"mix", "expanded"} =>
          /\ \A n \in DOMAIN key_s : WordOK(w, key_s[n])
          /\ \A n \in DOMAIN key_l : WordOK(w, key_l[n])
          /\ WordOK(w, mix_a) /\ WordOK(w, mix_b)
    /\ pc \in {"enc_round", "dec_round", "enc_return", "dec_return"} =>
          (WordOK(w, a) /\ WordOK(w, b))
    /\ phase = 2 => \A n \in DOMAIN out1 : WordOK(w, out1[n])
    /\ pc = "done" => \A n \in DOMAIN out2 : WordOK(w, out2[n])

\* a decrypt round that rotated by amounts other than 0, under the build that traps
C10_Witness ==
    /\ overflow_checks
    /\ pc = "dec_round"
    /\ VecLen(key) = MaxKeyLen
    /\ round_i < rounds
    /\ Cardinality(shifts) >= 2

(***************************************************************************)
(* C11.  expand_key fails with the error BadLength whenever the table      *)
(* length of its round count is no valid length (2 * (rounds + 1) is not   *)
(* representable), and returns no table in that case: a call with such a   *)
(* round count is running or has ended with BadLength, it has neither      *)
(* panicked nor returned a table.                                          *)
(***************************************************************************)
\* rounds + 1 and 2 * (rounds + 1) are values of usize
TableRepresentable ==
    /\ ~usize_add(rounds, 1).overflow
    /\ ~usize_mul(2, usize_add(rounds, 1).val).overflow

\* how the call of expand_key ended: its return type is Vec<W>, so it ends
\* with a table or with a panic
ExpandKeyOutcome ==
    CASE pc = "panicked" -> "panic"
      [] pc \in {"expanded", "enc_round", "enc_return", "dec_round",
                 "dec_return", "done"} -> "table"
      [] OTHER -> "running"

C11_BadLength ==
    (fn \in {"encrypt", "decrypt"} /\ ~TableRepresentable)
        => ExpandKeyOutcome \in {"running", "BadLength"}

\* such a call has ended
C11_Witness ==
    /\ fn \in {"encrypt", "decrypt"}
    /\ ~TableRepresentable
    /\ ExpandKeyOutcome # "running"

(***************************************************************************)
(* C15.  Key packing in expand_key: for every width (w = 8 included, where *)
(* the shift by 8 is a shift by the width) and every key of b bytes,       *)
(* c = max(1, ceil(8b / w)) and, before mixing, L[k] is the sum of         *)
(* key[k*u + m] * 256^m over m in 0..u-1, with the bytes past the end of   *)
(* the key taken as 0.                                                     *)
(***************************************************************************)
\* byte n of the key, 0 past its end
KeyByte(n) == IF n \in DOMAIN key THEN key[n] ELSE 0

\* the sum of KeyByte(from + m) * 256^m over m in 0..(count - 1)
RECURSIVE LittleEndianSum(_, _)
LittleEndianSum(from, count) ==
    IF count = 0 THEN 0
    ELSE KeyByte(from) + 256 * LittleEndianSum(from + 1, count - 1)

\* the word of the bytes key[n*u] .. key[n*u + u - 1], least significant first
PackedWord(W, n) ==
    LET perLimb == LimbBits(W) \div 8
    IN  [m \in 1..Limbs(W) |->
            LittleEndianSum(n * (W \div 8) + (m - 1) * perLimb, perLimb)]

\* the least n with n * y >= x
CeilDiv(x, y) == CHOOSE n \in 0..x : n * y >= x /\ (n = 0 \/ (n - 1) * y < x)

C15_KeyPacking ==
    (fn \in {"encrypt", "decrypt"} /\ pc \in {"init", "init_loop", "mix_begin"}) =>
        /\ c = Max(1, CeilDiv(8 * VecLen(key), w))
        /\ DOMAIN key_l = 0..(c - 1)
        /\ \A n \in 0..(c - 1) : key_l[n] = PackedWord(w, n)

\* a key of MaxKeyLen bytes packed into 8-bit words, where the shift is by the width
C15_Witness ==
    /\ pc = "init"
    /\ fn = "encrypt"
    /\ VecLen(key) = MaxKeyLen
    /\ w = 8
    /\ key[MaxKeyLen - 1] # 0
    /\ key_l[c - 1] # ZERO(w)

(***************************************************************************)
(* C16.  The mixing loop of expand_key runs exactly 3 * max(c, T)          *)
(* iterations and then stops; iteration k (from 0) writes S[k mod T] and   *)
(* L[k mod c], with i in [0, T) and j in [0, c); so every S entry and      *)
(* every L word is written at least 3 times, and every S entry exactly 3   *)
(* times when T >= c.                                                      *)
(***************************************************************************)
\* how many of the iterations 0 .. n-1 have the index idx modulo m
WritesBefore(n, m, idx) == Cardinality({q \in 0..(n - 1) : q % m = idx})

C16_MixingLoop ==
    /\ (fn \in {"encrypt", "decrypt"} /\ pc = "mix") =>
          /\ k < 3 * Max(c, t)
          /\ i = k % t /\ i \in 0..(t - 1)
          /\ j = k % c /\ j \in 0..(c - 1)
          /\ \A n \in 0..(t - 1) : s_updates[n] = WritesBefore(k, t, n)
          /\ \A n \in 0..(c - 1) : l_updates[n] = WritesBefore(k, c, n)
    /\ (fn \in {"encrypt", "decrypt"} /\ pc = "expanded") =>
          /\ k = 3 * Max(c, t)
          /\ DOMAIN s_updates = 0..(t - 1) /\ DOMAIN l_updates = 0..(c - 1)
          /\ \A n \in 0..(t - 1) : s_updates[n] >= 3
          /\ \A n \in 0..(c - 1) : l_updates[n] >= 3
          /\ t >= c => \A n \in 0..(t - 1) : s_updates[n] = 3

\* the loop has stopped with more key words than subkeys: an S entry written 4 times
C16_Witness ==
    /\ fn = "encrypt"
    /\ pc = "expanded"
    /\ c > t
    /\ k = 3 * c
    /\ \E n \in 0..(t - 1) : s_updates[n] > 3

(***************************************************************************)
(* C17.  Decrypt undoes encrypt round by round: for ct = encrypt(pt) under *)
(* the same key and round count, when decrypt has finished its iteration   *)
(* for index i (i from r down to 1, B before A) its pair (A, B) is the     *)
(* pair encrypt held after round i - 1 (after the key addition for i = 1), *)
(* and the final subtraction of S[0], S[1] gives pt back.                  *)
(***************************************************************************)
\* the pair encrypt held after round n; n = 0: after the key addition
AfterEncryptRound(n) == enc_trace[n + 1]

C17_RoundByRound ==
    (order = EncryptDecrypt /\ phase = 2) =>
        /\ pc \in {"dec_round", "dec_return"} =>
              /\ round_i \in 0..rounds
              /\ Len(enc_trace) = rounds + 1
              /\ Block(a, b) = AfterEncryptRound(round_i)
        /\ pc = "done" => out2 = input

\* decrypt between two of its rounds, its pair no longer the ciphertext
C17_Witness ==
    /\ order = EncryptDecrypt
    /\ phase = 2
    /\ pc = "dec_round"
    /\ rounds >= 2
    /\ round_i = rounds - 1
    /\ Block(a, b) # arg
    /\ Block(a, b) = AfterEncryptRound(rounds - 1)

(***************************************************************************)
(* C12.  Converting bytes to a word fails with the error ConversionError   *)
(* when the bytes are not exactly w/8; in particular a block handed to     *)
(* encode / decode whose length is not 2 * (w/8) yields ConversionError as *)
(* an error value, with no partial result and no silent truncation: such a *)
(* call is running or has ended with ConversionError, it has neither       *)
(* panicked nor returned bytes.  Stated for the build without overflow     *)
(* checks and a key of at least one byte, where expand_key::<W,T> returns. *)
(***************************************************************************)
BlockLengthValid == VecLen(input) = 2 * BYTES(w)

\* how the call of encode / decode ended: its return type is Vec<u8>, so it
\* ends with bytes or with a panic
LegacyOutcome ==
    CASE fn \in LegacyFns /\ pc = "panicked" -> "panic"
      [] phase = 2 -> "bytes"
      [] OTHER -> "running"

C12_ConversionError ==
    (/\ order[1] \in LegacyFns
     /\ ~overflow_checks
     /\ VecLen(key) > 0
     /\ ~BlockLengthValid)
        => LegacyOutcome \in {"running", "ConversionError"}

\* a block one byte long went through: the call returned 2 * (w/8) bytes
C12_Witness ==
    /\ order[1] \in LegacyFns
    /\ VecLen(input) = 2 * BYTES(w) + 1
    /\ LegacyOutcome = "bytes"
    /\ VecLen(lib_out) = 2 * BYTES(w)

(***************************************************************************)
(* C13.  The legacy expand_key::<W,T> of lib.rs (and so encode / decode)   *)
(* accepts an empty key: with a key of length 0 it does not fail and       *)
(* returns the table of T words derived from c = 1, L = [0].               *)
(***************************************************************************)
C13_LegacyEmptyKey ==
    (fn \in LegacyFns /\ VecLen(key) = 0) =>
        /\ pc # "panicked"
        /\ pc = "lib_expanded" =>
              /\ c = 1
              /\ key_s = EmptyKeyTable(w, rounds)

\* the call with the empty key has ended
C13_Witness ==
    /\ fn \in LegacyFns
    /\ VecLen(key) = 0
    /\ pc \in {"panicked", "lib_expanded"}

(***************************************************************************)
(* C14.  In lib.rs every addition and subtraction of expand_key, encode    *)
(* and decode is performed modulo 2^w without trapping, and the macros     *)
(* rotl! and rotr! never shift by w or more bits.  Stated for the calls    *)
(* with a key of at least one byte and a block of 2 * (w/8) bytes, where   *)
(* nothing else can panic.                                                 *)
(***************************************************************************)
C14_LegacyWraps ==
    (fn \in LegacyFns /\ VecLen(key) > 0 /\ BlockLengthValid) =>
        /\ pc # "panicked"
        /\ \A amount \in shifts : amount < w

\* the build without overflow checks: a macro has shifted by w
C14_Witness ==
    /\ fn \in LegacyFns
    /\ VecLen(key) > 0
    /\ BlockLengthValid
    /\ ~overflow_checks
    /\ w \in shifts

(***************************************************************************)
(* C18.  The two implementations agree: for every width, every even        *)
(* T >= 2, every key and every block, expand_key::<W,T>(key) of lib.rs is  *)
(* expand_key(key, T/2 - 1) of rc5.rs, encode::<W,T> on the little-endian  *)
(* bytes of [A, B] returns the little-endian bytes of                      *)
(* encrypt([A, B], key, T/2 - 1), and decode agrees with decrypt likewise. *)
(***************************************************************************)
C18_LegacyAgrees ==
    (order[1] \in LegacyFns /\ BlockLengthValid) =>
        /\ pc # "panicked"
        /\ (phase = 2 /\ pc = "expanded") => key_s = lib_key_s
        /\ pc = "done" => lib_out = BlockBytes(w, out2)

\* the two have both returned, and agree
C18_Witness ==
    /\ order[1] \in LegacyFns
    /\ BlockLengthValid
    /\ pc = "done"
    /\ lib_out = BlockBytes(w, out2)

====
